---- MODULE Spec2Model ----
(***************************************************************************)
(* A model of the stream-structure validator of stack/src/stack2.rs: the   *)
(* fixed-size Stack that packs one 5-bit slot per nesting level into a     *)
(* u64, together with its u8 depth counter, and of a producer that calls   *)
(* its operations in any order.                                            *)
(***************************************************************************)
EXTENDS Integers, Sequences, FiniteSets, TLC

VARIABLES
    inner,      \* Stack.inner: the packed u64, as the tuple of its 64 bits
    depth,      \* Stack.depth: u8
    lastOp,     \* the operation called last ("new" after construction)
    lastRes,    \* what it returned: "Ok", "Err", "Panic", "true", "false", "none"
    lastErr,    \* the expectation its error describes ("" when none)
    pos,        \* <<Pos>> returned by the last call, <<>> when it returned none
    gram,       \* the grammar's parse stack over the accepted events
    gramOk,     \* no accepted event has been outside the grammar
    lastLegal,  \* the last call continued a grammar sentence of depth <= capacity
    repeated,   \* the last call repeated the rejected call before it
    opened,     \* per open frame, the depth in the Pos its begin returned
    ref,        \* the frames of the reference validator, the root's first
    mode,       \* "free": any calls; "first"/"replay": a recorded run and its replay
    script,     \* the operations of the recorded run, in order
    log1,       \* what each call of the recorded run returned
    log2,       \* what each call of the replay returned
    val,        \* the value being streamed (<<>> when none is)
    work,       \* the Value::stream calls in progress, the outermost first
    out,        \* the calls made on the stream so far, and whether each succeeded
    result      \* what the outermost Value::stream returned: "Ok", "Err"; "running"

stackVars == <<inner, depth>>

callVars == <<lastOp, lastRes, lastErr, pos>>

ghostVars == <<gram, gramOk, lastLegal, repeated, opened, ref>>

replayVars == <<mode, script, log1, log2>>

valueVars == <<val, work, out, result>>

vars == <<stackVars, callVars, ghostVars, replayVars, valueVars>>

----------------------------------------------------------------------------
(* Bounds of the model *)

\* the producer keeps at most this many map frames open at once
MaxOpenMaps == 1

\* the longest run that is recorded and replayed after clear()
MaxScript == 3

\* the longest slice or map that is streamed, and the number of distinct
\* primitives in it
MaxLen == 2

----------------------------------------------------------------------------
(* Machine words *)

\* RawStack::BITS (type RawStack = u64)
Stack_BITS == 64

\* u8::BITS
U8_BITS == 8

\* u8::MAX
U8_MAX == 255

Pow2(i) == 2 ^ i

Bit(n, i) == (n \div Pow2(i)) % 2

\* a RawStack is the tuple of its bits, bit i (of weight 2^i) at index i + 1
BitIx == 1 .. Stack_BITS

\* `x as RawStack` for a u8 x: zero extension
AsRaw(n) == [i \in BitIx |-> IF i <= U8_BITS THEN Bit(n, i - 1) ELSE 0]

\* `x as u8` for a RawStack x: the low 8 bits
AsU8(w) == w[1] + 2 * w[2] + 4 * w[3] + 8 * w[4]
           + 16 * w[5] + 32 * w[6] + 64 * w[7] + 128 * w[8]

\* RawStack::MAX
RAW_MAX == [i \in BitIx |-> 1]

\* u64 `<<`: bits shifted past bit 63 are lost
Shl(w, k) == [i \in BitIx |-> IF i <= k THEN 0 ELSE w[i - k]]

\* u64 `>>`
Shr(w, k) == [i \in BitIx |-> IF i + k <= Stack_BITS THEN w[i + k] ELSE 0]

BitAnd(a, b) == [i \in BitIx |-> a[i] * b[i]]

BitOr(a, b) == [i \in BitIx |-> IF a[i] + b[i] > 0 THEN 1 ELSE 0]

BitXor(a, b) == [i \in BitIx |-> (a[i] + b[i]) % 2]

\* u8 `&` and `|`, on numbers 0..255
U8Ix == 1 .. U8_BITS

U8And(a, b) == AsU8([i \in U8Ix |-> Bit(a, i - 1) * Bit(b, i - 1)])

U8Or(a, b) == AsU8([i \in U8Ix |-> IF Bit(a, i - 1) + Bit(b, i - 1) > 0 THEN 1 ELSE 0])

U8Not(a) == U8_MAX - a

U8Shr(a, k) == a \div Pow2(k)

----------------------------------------------------------------------------
(* impl Slot *)

IS_EMPTY == 0

IS_MAP_KEY == 2

IS_MAP_VALUE == 6

IS_SEQ_ELEM == 8

RESERVED == 16

MASK_VALUE_ELEM == 12

NEEDS_ITEM == 1

NEEDS_MAP_KEY == 4

NEEDS_MAP_VALUE == 2

NEEDS_SEQ_ELEM == 8

Slot_BITS == 5

MASK_SLOT == U8Shr(U8_MAX, U8_BITS - Slot_BITS)

----------------------------------------------------------------------------
(* impl Stack *)

\* a capacity computed one short
MAX_DEPTH_short == (Stack_BITS \div Slot_BITS) - 1

MAX_DEPTH == Stack_BITS \div Slot_BITS

\* a begin mask that keeps the parent's NEEDS_ITEM bit
MASK_SLOT_BEGIN_keeps_item == Shl(RAW_MAX, Slot_BITS)

MASK_SLOT_BEGIN == BitXor(Shl(RAW_MAX, Slot_BITS), Shl(AsRaw(NEEDS_ITEM), Slot_BITS))

\* struct Stack { inner, depth }
Stack(in, d) == [inner |-> in, depth |-> d]

\* struct Pos(RawStack, u8), as carried by Ok(..)
Pos(in, d) == <<[raw |-> in, depth |-> d]>>

\* impl Pos, on the record a Pos(..) carries
is_key(p) == U8And(AsU8(p.raw), MASK_SLOT) = IS_MAP_KEY

\* is_value() that tests the bits of IS_MAP_VALUE one by one
is_value_any_bit(p) == U8And(U8And(AsU8(p.raw), MASK_SLOT), IS_MAP_VALUE) # 0

is_value(p) == U8And(AsU8(p.raw), MASK_SLOT) = IS_MAP_VALUE

is_elem(p) == U8And(AsU8(p.raw), MASK_SLOT) = IS_SEQ_ELEM

is_value_elem(p) == U8And(AsU8(p.raw), MASK_VALUE_ELEM) # 0

\* Ok(Pos(self.inner, self.depth)) with self as the call left it
Ok(self) == [self |-> self, res |-> "Ok", err |-> "", pos |-> Pos(self.inner, self.depth)]

\* Err(crate::Error::custom(&expecting)), self untouched by the branch
Err(self, expecting) == [self |-> self, res |-> "Err", err |-> expecting, pos |-> <<>>]

\* an arithmetic-overflow panic (builds with overflow checks); self as the
\* statements before the panicking one left it
Panic(self) == [self |-> self, res |-> "Panic", err |-> "overflow", pos |-> <<>>]

\* `self.depth += 1` / `self.depth -= 1` on a u8 leaves the range exactly when
\* the build's overflow check would fire
Overflows(d) == d < 0 \/ d > U8_MAX

\* the wrapped u8 a build without overflow checks stores
WrapU8(d) == (d + U8_MAX + 1) % (U8_MAX + 1)

new == Stack(AsRaw(NEEDS_ITEM), 0)

\* clear() that resets the depth counter and forgets the packed slots
clear_keeps_inner(self) == Stack(self.inner, 0)

clear(self) == new

\* primitive() that flips NEEDS_ITEM before it checks the slot
primitive_toggles(self) ==
    LET MASK == U8And(MASK_SLOT, NEEDS_ITEM)
        VALID == NEEDS_ITEM
        EXPECT_NEXT == AsRaw(NEEDS_ITEM)
        flipped == Stack(BitXor(self.inner, EXPECT_NEXT), self.depth)
    IN  IF U8And(AsU8(self.inner), MASK) = VALID
        THEN Ok(flipped)
        ELSE Err(flipped, "a primitive")

primitive(self) ==
    LET MASK == U8And(MASK_SLOT, NEEDS_ITEM)
        VALID == NEEDS_ITEM
        EXPECT_NEXT == AsRaw(NEEDS_ITEM)
    IN  IF U8And(AsU8(self.inner), MASK) = VALID
        THEN Ok(Stack(BitXor(self.inner, EXPECT_NEXT), self.depth))
        ELSE Err(self, "a primitive")

\* map_begin() that looks at the slot before it looks at the depth
map_begin_slot_first(self, checks) ==
    LET MASK == U8And(MASK_SLOT, NEEDS_ITEM)
        VALID == NEEDS_ITEM
        EXPECT == AsRaw(U8Or(NEEDS_MAP_KEY, NEEDS_MAP_VALUE))
        shifted == BitOr(BitAnd(Shl(self.inner, Slot_BITS), MASK_SLOT_BEGIN), EXPECT)
    IN  IF U8And(AsU8(self.inner), MASK) # VALID
        THEN Err(self, "the start of a map")
        ELSE IF self.depth = MAX_DEPTH
        THEN Err(self, "more depth at the start of a map")
        ELSE IF checks /\ Overflows(self.depth + 1)
        THEN Panic(Stack(shifted, self.depth))
        ELSE Ok(Stack(shifted, WrapU8(self.depth + 1)))

\* map_begin() that returns the Pos it had on entry
map_begin_pos_on_entry(self, checks) ==
    LET MASK == U8And(MASK_SLOT, NEEDS_ITEM)
        VALID == NEEDS_ITEM
        EXPECT == AsRaw(U8Or(NEEDS_MAP_KEY, NEEDS_MAP_VALUE))
        shifted == BitOr(BitAnd(Shl(self.inner, Slot_BITS), MASK_SLOT_BEGIN), EXPECT)
    IN  IF self.depth = MAX_DEPTH
        THEN Err(self, "more depth at the start of a map")
        ELSE IF U8And(AsU8(self.inner), MASK) # VALID
        THEN Err(self, "the start of a map")
        ELSE [self |-> Stack(shifted, WrapU8(self.depth + 1)), res |-> "Ok",
              err |-> "", pos |-> Pos(self.inner, self.depth)]

map_begin(self, checks) ==
    LET MASK == U8And(MASK_SLOT, NEEDS_ITEM)
        VALID == NEEDS_ITEM
        EXPECT == AsRaw(U8Or(NEEDS_MAP_KEY, NEEDS_MAP_VALUE))
        shifted == BitOr(BitAnd(Shl(self.inner, Slot_BITS), MASK_SLOT_BEGIN), EXPECT)
    IN  IF self.depth = MAX_DEPTH
        THEN Err(self, "more depth at the start of a map")
        ELSE IF U8And(AsU8(self.inner), MASK) = VALID
        THEN IF checks /\ Overflows(self.depth + 1)
             THEN Panic(Stack(shifted, self.depth))
             ELSE Ok(Stack(shifted, WrapU8(self.depth + 1)))
        ELSE Err(self, "the start of a map")

\* map_key() that sets the expected bits instead of toggling them
map_key_sets(self) ==
    LET MASK == MASK_SLOT
        VALID == U8Or(NEEDS_MAP_KEY, NEEDS_MAP_VALUE)
        EXPECT == AsRaw(U8Or(NEEDS_MAP_KEY, NEEDS_ITEM))
    IN  IF U8And(AsU8(self.inner), MASK) = VALID
        THEN Ok(Stack(BitOr(self.inner, EXPECT), self.depth))
        ELSE Err(self, "a map key")

map_key(self) ==
    LET MASK == MASK_SLOT
        VALID == U8Or(NEEDS_MAP_KEY, NEEDS_MAP_VALUE)
        EXPECT == AsRaw(U8Or(NEEDS_MAP_KEY, NEEDS_ITEM))
    IN  IF U8And(AsU8(self.inner), MASK) = VALID
        THEN Ok(Stack(BitXor(self.inner, EXPECT), self.depth))
        ELSE Err(self, "a map key")

\* map_value() that compares the slot with IS_MAP_VALUE
map_value_wrong_valid(self) ==
    LET MASK == MASK_SLOT
        VALID == IS_MAP_VALUE
        EXPECT == AsRaw(U8Or(NEEDS_MAP_KEY, NEEDS_ITEM))
    IN  IF U8And(AsU8(self.inner), MASK) = VALID
        THEN Ok(Stack(BitXor(self.inner, EXPECT), self.depth))
        ELSE Err(self, "a map value")

\* map_value() that looks at the NEEDS_MAP_VALUE bit alone
map_value_any(self) ==
    LET MASK == NEEDS_MAP_VALUE
        VALID == NEEDS_MAP_VALUE
        EXPECT == AsRaw(U8Or(NEEDS_MAP_KEY, NEEDS_ITEM))
    IN  IF U8And(AsU8(self.inner), MASK) = VALID
        THEN Ok(Stack(BitXor(self.inner, EXPECT), self.depth))
        ELSE Err(self, "a map value")

map_value(self) ==
    LET MASK == MASK_SLOT
        VALID == NEEDS_MAP_VALUE
        EXPECT == AsRaw(U8Or(NEEDS_MAP_KEY, NEEDS_ITEM))
    IN  IF U8And(AsU8(self.inner), MASK) = VALID
        THEN Ok(Stack(BitXor(self.inner, EXPECT), self.depth))
        ELSE Err(self, "a map value")

\* map_end() that pops the slot and leaves the depth counter
map_end_keeps_depth(self, checks) ==
    LET MASK == MASK_SLOT
        VALID == U8Or(NEEDS_MAP_KEY, NEEDS_MAP_VALUE)
        shifted == Shr(self.inner, Slot_BITS)
    IN  IF U8And(AsU8(self.inner), MASK) = VALID
        THEN Ok(Stack(shifted, self.depth))
        ELSE Err(self, "the end of a map")

\* map_end() whose mask leaves out the NEEDS_ITEM bit
map_end_ignores_item(self, checks) ==
    LET MASK == U8And(MASK_SLOT, U8Not(NEEDS_ITEM))
        VALID == U8Or(NEEDS_MAP_KEY, NEEDS_MAP_VALUE)
        shifted == Shr(self.inner, Slot_BITS)
    IN  IF U8And(AsU8(self.inner), MASK) = VALID
        THEN IF checks /\ Overflows(self.depth - 1)
             THEN Panic(Stack(shifted, self.depth))
             ELSE Ok(Stack(shifted, WrapU8(self.depth - 1)))
        ELSE Err(self, "the end of a map")

map_end(self, checks) ==
    LET MASK == MASK_SLOT
        VALID == U8Or(NEEDS_MAP_KEY, NEEDS_MAP_VALUE)
        shifted == Shr(self.inner, Slot_BITS)
    IN  IF U8And(AsU8(self.inner), MASK) = VALID
        THEN IF checks /\ Overflows(self.depth - 1)
             THEN Panic(Stack(shifted, self.depth))
             ELSE Ok(Stack(shifted, WrapU8(self.depth - 1)))
        ELSE Err(self, "the end of a map")

\* seq_begin() without the MAX_DEPTH check
seq_begin_unbounded(self, checks) ==
    LET MASK == U8And(MASK_SLOT, NEEDS_ITEM)
        VALID == NEEDS_ITEM
        EXPECT == AsRaw(NEEDS_SEQ_ELEM)
        shifted == BitOr(BitAnd(Shl(self.inner, Slot_BITS), MASK_SLOT_BEGIN), EXPECT)
    IN  IF U8And(AsU8(self.inner), MASK) = VALID
        THEN IF checks /\ Overflows(self.depth + 1)
             THEN Panic(Stack(shifted, self.depth))
             ELSE Ok(Stack(shifted, WrapU8(self.depth + 1)))
        ELSE Err(self, "the start of a sequence")

\* seq_begin() that shifts the slots up without masking the parent's slot
seq_begin_unmasked(self, checks) ==
    LET MASK == U8And(MASK_SLOT, NEEDS_ITEM)
        VALID == NEEDS_ITEM
        EXPECT == AsRaw(NEEDS_SEQ_ELEM)
        shifted == BitOr(Shl(self.inner, Slot_BITS), EXPECT)
    IN  IF self.depth = MAX_DEPTH
        THEN Err(self, "more depth at the start of a sequence")
        ELSE IF U8And(AsU8(self.inner), MASK) = VALID
        THEN IF checks /\ Overflows(self.depth + 1)
             THEN Panic(Stack(shifted, self.depth))
             ELSE Ok(Stack(shifted, WrapU8(self.depth + 1)))
        ELSE Err(self, "the start of a sequence")

seq_begin(self, checks) ==
    LET MASK == U8And(MASK_SLOT, NEEDS_ITEM)
        VALID == NEEDS_ITEM
        EXPECT == AsRaw(NEEDS_SEQ_ELEM)
        shifted == BitOr(BitAnd(Shl(self.inner, Slot_BITS), MASK_SLOT_BEGIN), EXPECT)
    IN  IF self.depth = MAX_DEPTH
        THEN Err(self, "more depth at the start of a sequence")
        ELSE IF U8And(AsU8(self.inner), MASK) = VALID
        THEN IF checks /\ Overflows(self.depth + 1)
             THEN Panic(Stack(shifted, self.depth))
             ELSE Ok(Stack(shifted, WrapU8(self.depth + 1)))
        ELSE Err(self, "the start of a sequence")

seq_elem(self) ==
    LET MASK == MASK_SLOT
        VALID == NEEDS_SEQ_ELEM
        EXPECT == AsRaw(NEEDS_ITEM)
    IN  IF U8And(AsU8(self.inner), MASK) = VALID
        THEN Ok(Stack(BitOr(self.inner, EXPECT), self.depth))
        ELSE Err(self, "a sequence element")

\* seq_end() whose mask leaves out the NEEDS_ITEM bit
seq_end_ignores_item(self, checks) ==
    LET MASK == U8And(MASK_SLOT, U8Not(NEEDS_ITEM))
        VALID == NEEDS_SEQ_ELEM
        shifted == Shr(self.inner, Slot_BITS)
    IN  IF U8And(AsU8(self.inner), MASK) = VALID
        THEN IF checks /\ Overflows(self.depth - 1)
             THEN Panic(Stack(shifted, self.depth))
             ELSE Ok(Stack(shifted, WrapU8(self.depth - 1)))
        ELSE Err(self, "the end of a sequence")

\* seq_end() that pops the slot before it looks at it
seq_end_pops_first(self, checks) ==
    LET MASK == MASK_SLOT
        VALID == NEEDS_SEQ_ELEM
        shifted == Shr(self.inner, Slot_BITS)
    IN  IF U8And(AsU8(self.inner), MASK) = VALID
        THEN IF checks /\ Overflows(self.depth - 1)
             THEN Panic(Stack(shifted, self.depth))
             ELSE Ok(Stack(shifted, WrapU8(self.depth - 1)))
        ELSE Err(Stack(shifted, self.depth), "the end of a sequence")

seq_end(self, checks) ==
    LET MASK == MASK_SLOT
        VALID == NEEDS_SEQ_ELEM
        shifted == Shr(self.inner, Slot_BITS)
    IN  IF U8And(AsU8(self.inner), MASK) = VALID
        THEN IF checks /\ Overflows(self.depth - 1)
             THEN Panic(Stack(shifted, self.depth))
             ELSE Ok(Stack(shifted, WrapU8(self.depth - 1)))
        ELSE Err(self, "the end of a sequence")

\* can_end() that asks for the NEEDS_ITEM bit instead of ignoring it
can_end_wants_item(self) ==
    LET MASK == MASK_SLOT
        VALID == NEEDS_ITEM
    IN  self.depth = 0 /\ U8And(AsU8(self.inner), MASK) = VALID

can_end(self) ==
    LET MASK == U8Not(NEEDS_ITEM)
        VALID == IS_EMPTY
    IN  self.depth = 0 /\ U8And(AsU8(self.inner), MASK) = VALID

end(self) ==
    IF can_end(self)
    THEN [self |-> self, res |-> "Ok", err |-> "", pos |-> <<>>]
    ELSE Err(self, "the end of the stream")

----------------------------------------------------------------------------
(* The grammar of the stream (a pushdown recogniser):                      *)
(*   Root ::= Item          Item ::= Primitive | Map | Seq                 *)
(*   Map  ::= map_begin (map_key Item map_value Item)* map_end             *)
(*   Seq  ::= seq_begin (seq_elem Item)* seq_end                           *)
(* The parse stack lists what is still owed, innermost last: "Item" an     *)
(* item, "MapBody" a map_key or map_end, "MapValue" a map_value, "SeqBody" *)
(* a seq_elem or seq_end.  An event sequence is a prefix of a sentence iff *)
(* the recogniser can take every event; it is a sentence iff nothing is    *)
(* owed after it.                                                          *)

Events == {"primitive", "map_begin", "map_key", "map_value", "map_end",
           "seq_begin", "seq_elem", "seq_end"}

Begins == {"map_begin", "seq_begin"}

Ends == {"map_end", "seq_end"}

Top(g) == IF Len(g) = 0 THEN "Done" ELSE g[Len(g)]

Pop(g) == IF Len(g) = 0 THEN g ELSE SubSeq(g, 1, Len(g) - 1)

GramWants(op) ==
    CASE op \in {"primitive", "map_begin", "seq_begin"} -> "Item"
      [] op \in {"map_key", "map_end"} -> "MapBody"
      [] op = "map_value" -> "MapValue"
      [] op \in {"seq_elem", "seq_end"} -> "SeqBody"
      [] OTHER -> "None"

GramAllows(g, op) == Top(g) = GramWants(op)

GramNext(g, op) ==
    CASE op = "primitive" -> Pop(g)
      [] op = "map_begin" -> Append(Pop(g), "MapBody")
      [] op = "map_key" -> Pop(g) \o <<"MapValue", "Item">>
      [] op = "map_value" -> Pop(g) \o <<"MapBody", "Item">>
      [] op = "map_end" -> Pop(g)
      [] op = "seq_begin" -> Append(Pop(g), "SeqBody")
      [] op = "seq_elem" -> Pop(g) \o <<"SeqBody", "Item">>
      [] op = "seq_end" -> Pop(g)
      [] OTHER -> g

\* the frames the accepted events have opened and not closed
GramDepth(g) == Cardinality({i \in 1 .. Len(g) : g[i] # "Item"})

OpenMaps(g) == Cardinality({i \in 1 .. Len(g) : g[i] \in {"MapBody", "MapValue"}})

\* the capacity the specification states for the reference encoding
Capacity == 12

----------------------------------------------------------------------------
(* The reference validator: an explicit array of frame states, the root's
   first and the innermost last, at most Capacity frames above the root *)

RefStates == {"Root", "MapAwaitingKey", "MapAwaitingValue", "SeqAwaitingElem"}

RefFrame(state, pending) == [state |-> state, pending |-> pending]

RefNew == <<RefFrame("Root", TRUE)>>

RefDepth(fr) == Len(fr) - 1

RefTop(fr) == fr[Len(fr)]

RefSetTop(fr, f) == [fr EXCEPT ![Len(fr)] = f]

\* the frames with the innermost closed and the item it was marked off
RefClose(fr) ==
    LET rest == SubSeq(fr, 1, Len(fr) - 1)
    IN  RefSetTop(rest, RefFrame(RefTop(rest).state, FALSE))

RefOk(fr) == [ref |-> fr, ok |-> TRUE]

RefErr(fr) == [ref |-> fr, ok |-> FALSE]

RefBegin(fr, state) ==
    IF RefDepth(fr) = Capacity THEN RefErr(fr)
    ELSE IF RefTop(fr).pending THEN RefOk(Append(fr, RefFrame(state, FALSE)))
    ELSE RefErr(fr)

RefTurn(fr, from, to) ==
    IF RefTop(fr) = RefFrame(from, FALSE)
    THEN RefOk(RefSetTop(fr, RefFrame(to, TRUE)))
    ELSE RefErr(fr)

RefEnd(fr, state) ==
    IF RefTop(fr) = RefFrame(state, FALSE) THEN RefOk(RefClose(fr)) ELSE RefErr(fr)

RefDo(fr, op) ==
    CASE op = "primitive" ->
            IF RefTop(fr).pending
            THEN RefOk(RefSetTop(fr, RefFrame(RefTop(fr).state, FALSE)))
            ELSE RefErr(fr)
      [] op = "map_begin" -> RefBegin(fr, "MapAwaitingKey")
      [] op = "map_key" -> RefTurn(fr, "MapAwaitingKey", "MapAwaitingValue")
      [] op = "map_value" -> RefTurn(fr, "MapAwaitingValue", "MapAwaitingKey")
      [] op = "map_end" -> RefEnd(fr, "MapAwaitingKey")
      [] op = "seq_begin" -> RefBegin(fr, "SeqAwaitingElem")
      [] op = "seq_elem" -> RefTurn(fr, "SeqAwaitingElem", "SeqAwaitingElem")
      [] op = "seq_end" -> RefEnd(fr, "SeqAwaitingElem")

\* the 5-bit slot of the packed integer, i slots above the innermost
SlotAt(in, i) == U8And(AsU8(Shr(in, i * Slot_BITS)), MASK_SLOT)

\* the slot a reference frame is packed as: its state, and NEEDS_ITEM while
\* it is the innermost frame and an item is pending
RefSlot(f, innermost) ==
    (CASE f.state = "Root" -> IS_EMPTY
       [] f.state = "MapAwaitingKey" -> U8Or(NEEDS_MAP_KEY, NEEDS_MAP_VALUE)
       [] f.state = "MapAwaitingValue" -> NEEDS_MAP_VALUE
       [] f.state = "SeqAwaitingElem" -> NEEDS_SEQ_ELEM)
    + (IF innermost /\ f.pending THEN NEEDS_ITEM ELSE 0)

----------------------------------------------------------------------------
(* The producer: construction, then any operation in any order *)

Self == Stack(inner, depth)

Ops == Events \cup {"can_end", "end"}

\* what a call of `op` on `self` returns and leaves in self; `checks` is
\* whether the build checks arithmetic overflow
Do(op, self, checks) ==
    CASE op = "primitive" -> primitive(self)
      [] op = "map_begin" -> map_begin(self, checks)
      [] op = "map_key" -> map_key(self)
      [] op = "map_value" -> map_value(self)
      [] op = "map_end" -> map_end(self, checks)
      [] op = "seq_begin" -> seq_begin(self, checks)
      [] op = "seq_elem" -> seq_elem(self)
      [] op = "seq_end" -> seq_end(self, checks)
      [] op = "end" -> end(self)
      [] OTHER -> [self |-> self, res |-> IF can_end(self) THEN "true" ELSE "false",
                   err |-> "", pos |-> <<>>]

InitStack ==
    /\ inner = new.inner
    /\ depth = new.depth
    /\ lastOp = "new"
    /\ lastRes = "none"
    /\ lastErr = ""
    /\ pos = <<>>
    /\ gram = <<"Item">>
    /\ gramOk = TRUE
    /\ lastLegal = FALSE
    /\ repeated = FALSE
    /\ opened = <<>>
    /\ ref = RefNew

\* no value is being streamed
NoValue ==
    /\ val = <<>>
    /\ work = <<>>
    /\ out = <<>>
    /\ result = "idle"

Init ==
    /\ InitStack
    /\ NoValue
    /\ mode = "free"
    /\ script = <<>>
    /\ log1 = <<>>
    /\ log2 = <<>>

\* the program is over once a call has panicked
Running == lastRes # "Panic"

\* the grammar, given the events accepted so far, has a sentence of nesting
\* depth <= Capacity that continues with `op` (with end(): that stops here)
Legal(op) ==
    /\ gramOk
    /\ IF op = "end"
       THEN gram = <<>>
       ELSE /\ op \in Events
            /\ GramAllows(gram, op)
            /\ (op \in Begins => GramDepth(gram) < Capacity)

\* one call of `op` that returned r
Call(op, r) ==
    /\ Running
    /\ inner' = r.self.inner
    /\ depth' = r.self.depth
    /\ lastOp' = op
    /\ lastRes' = r.res
    /\ lastErr' = r.err
    /\ pos' = r.pos
    /\ lastLegal' = Legal(op)
    /\ repeated' = (lastRes = "Err" /\ lastOp = op)
    /\ opened' = IF r.res = "Ok" /\ op \in Begins
                 THEN opened \o <<r.pos[1].depth>>
                 ELSE IF r.res = "Ok" /\ op \in Ends /\ opened # <<>>
                 THEN SubSeq(opened, 1, Len(opened) - 1)
                 ELSE opened
    /\ ref' = IF op \in Events THEN RefDo(ref, op).ref ELSE ref
    /\ IF op \in Events /\ r.res = "Ok"
       THEN IF GramAllows(gram, op)
            THEN gram' = GramNext(gram, op) /\ gramOk' = gramOk
            ELSE gram' = gram /\ gramOk' = FALSE
       ELSE UNCHANGED <<gram, gramOk>>

\* clear(): the validator, and with it the stream, starts over
Cleared ==
    LET s == clear(Self)
    IN  /\ Running
        /\ inner' = s.inner
        /\ depth' = s.depth
        /\ lastOp' = "clear"
        /\ lastRes' = "none"
        /\ lastErr' = ""
        /\ pos' = <<>>
        /\ gram' = <<"Item">>
        /\ gramOk' = TRUE
        /\ lastLegal' = FALSE
        /\ repeated' = FALSE
        /\ opened' = <<>>
        /\ ref' = RefNew

Free == mode = "free" /\ UNCHANGED <<replayVars, valueVars>>

Primitive == Free /\ Call("primitive", primitive(Self))

MapBegin ==
    /\ Free
    /\ OpenMaps(gram) < MaxOpenMaps
    /\ \E checks \in BOOLEAN : Call("map_begin", map_begin(Self, checks))

MapKey == Free /\ Call("map_key", map_key(Self))

MapValue == Free /\ Call("map_value", map_value(Self))

MapEnd == Free /\ \E checks \in BOOLEAN : Call("map_end", map_end(Self, checks))

SeqBegin == Free /\ \E checks \in BOOLEAN : Call("seq_begin", seq_begin(Self, checks))

SeqElem == Free /\ Call("seq_elem", seq_elem(Self))

SeqEnd == Free /\ \E checks \in BOOLEAN : Call("seq_end", seq_end(Self, checks))

CanEnd == Free /\ Call("can_end", Do("can_end", Self, FALSE))

End == Free /\ Call("end", end(Self))

Clear == Free /\ Cleared

Next ==
    \/ Primitive
    \/ MapBegin
    \/ MapKey
    \/ MapValue
    \/ MapEnd
    \/ SeqBegin
    \/ SeqElem
    \/ SeqEnd
    \/ CanEnd
    \/ End
    \/ Clear

Spec == Init /\ [][Next]_vars

----------------------------------------------------------------------------
(* A recorded run on a fresh Stack, then clear() and the same calls again *)

\* what the caller sees of a call: the result, the error, the Pos
Seen(r) == [res |-> r.res, err |-> r.err, pos |-> r.pos]

InitReplay ==
    /\ InitStack
    /\ NoValue
    /\ mode = "first"
    /\ script = <<>>
    /\ log1 = <<>>
    /\ log2 = <<>>

Record(op) ==
    /\ mode = "first"
    /\ Len(script) < MaxScript
    /\ \E checks \in BOOLEAN :
          LET r == Do(op, Self, checks)
          IN  /\ Call(op, r)
              /\ script' = Append(script, op)
              /\ log1' = Append(log1, Seen(r))
    /\ UNCHANGED <<mode, log2, valueVars>>

ClearThenReplay ==
    /\ mode = "first"
    /\ Cleared
    /\ mode' = "replay"
    /\ UNCHANGED <<script, log1, log2, valueVars>>

Replay ==
    /\ mode = "replay"
    /\ Len(log2) < Len(script)
    /\ \E checks \in BOOLEAN :
          LET op == script[Len(log2) + 1]
              r == Do(op, Self, checks)
          IN  /\ Call(op, r)
              /\ log2' = Append(log2, Seen(r))
    /\ UNCHANGED <<mode, script, log1, valueVars>>

NextReplay ==
    \/ \E op \in Ops : Record(op)
    \/ ClearThenReplay
    \/ Replay

SpecReplay == InitReplay /\ [][NextReplay]_vars

----------------------------------------------------------------------------
(* Values, and what their Value::stream calls on the stream *)

\* a value: its type and what it holds (a primitive: the token that tells it
\* from other primitives; a map: its entries <<key, value>> as iterated)
Value(kind, items) == [kind |-> kind, items |-> items]

Wrappers == {"Some", "Box", "Rc", "Arc"}

SeqsUpTo(S, n) == UNION {[1 .. k -> S] : k \in 0 .. n}

Prims == {Value("Prim", <<t>>) : t \in 1 .. MaxLen}

Leaves == Prims \cup {Value("None", <<>>), Value("Unit", <<>>)}

\* what the elements and the map values are drawn from
Elements == {Value("Prim", <<1>>), Value("None", <<>>)}

\* a BTreeMap iterates in key order, a HashMap in any order
BTreeEntries(V) ==
    {e \in SeqsUpTo(Prims \X V, MaxLen) :
        \A i, j \in 1 .. Len(e) : i < j => e[i][1].items[1] < e[j][1].items[1]}

HashEntries(V) ==
    {e \in SeqsUpTo(Prims \X V, MaxLen) :
        \A i, j \in 1 .. Len(e) : i < j => e[i][1] # e[j][1]}

Flat ==
    {Value(k, <<v>>) : k \in Wrappers, v \in Leaves}
    \cup {Value(k, s) : k \in {"Slice", "Vec"}, s \in SeqsUpTo(Elements, MaxLen)}
    \cup {Value("Pair", <<a, b>>) : a, b \in Elements}
    \cup {Value("BTreeMap", e) : e \in BTreeEntries(Elements)}
    \cup {Value("HashMap", e) : e \in HashEntries(Elements)}

Nested ==
    {Value(k, <<v>>) : k \in Wrappers, v \in Flat}
    \cup {Value("Slice", <<v, Value("Prim", <<1>>)>>) : v \in Flat}
    \cup {Value("Pair", <<Value("Prim", <<1>>), v>>) : v \in Flat}
    \cup {Value("BTreeMap", <<<<Value("Prim", <<1>>), v>>>>) : v \in Flat}

Values == Leaves \cup Flat \cup Nested

\* one statement of a stream() body: the method called on the stream, its
\* argument, the value handed over (if any), and whether an Err it returns
\* is returned at once (`?`, or the body's last expression)
Instr(call, arg, sub, try) == [call |-> call, arg |-> arg, sub |-> sub, try |-> try]

\* impl Value for (): stream.none()
stream_unit(self) == <<Instr("none", 0, <<>>, TRUE)>>

\* Option<T> written as the one-element sequence of its content
stream_Option_as_seq(self) ==
    IF self.kind = "Some"
    THEN <<Instr("seq_begin", 1, <<>>, TRUE),
           Instr("seq_elem", 0, <<self.items[1]>>, TRUE),
           Instr("seq_end", 0, <<>>, TRUE)>>
    ELSE <<Instr("none", 0, <<>>, TRUE)>>

\* impl Value for Option<T>
stream_Option(self) ==
    IF self.kind = "Some"
    THEN <<Instr("stream", 0, <<self.items[1]>>, TRUE)>>
    ELSE <<Instr("none", 0, <<>>, TRUE)>>

\* [T] whose loop drops the result of seq_elem
stream_slice_drops_elem_result(self) ==
    <<Instr("seq_begin", Len(self.items), <<>>, TRUE)>>
    \o [i \in 1 .. Len(self.items) |-> Instr("seq_elem", 0, <<self.items[i]>>, FALSE)]
    \o <<Instr("seq_end", 0, <<>>, TRUE)>>

\* impl Value for [T]
stream_slice(self) ==
    <<Instr("seq_begin", Len(self.items), <<>>, TRUE)>>
    \o [i \in 1 .. Len(self.items) |-> Instr("seq_elem", 0, <<self.items[i]>>, TRUE)]
    \o <<Instr("seq_end", 0, <<>>, TRUE)>>

\* impl Value for (T, U)
stream_pair(self) ==
    <<Instr("seq_begin", 2, <<>>, TRUE),
      Instr("seq_elem", 0, <<self.items[1]>>, TRUE),
      Instr("seq_elem", 0, <<self.items[2]>>, TRUE),
      Instr("seq_end", 0, <<>>, TRUE)>>

\* impl Value for u8 .. str: one call of the primitive's stream method
stream_prim(self) == <<Instr("prim", self.items[1], <<>>, TRUE)>>

\* impl Value for Box<T>, Rc<T>, Arc<T>: (**self).stream(stream)
stream_Box(self) == <<Instr("stream", 0, <<self.items[1]>>, TRUE)>>

stream_Rc(self) == <<Instr("stream", 0, <<self.items[1]>>, TRUE)>>

stream_Arc(self) == <<Instr("stream", 0, <<self.items[1]>>, TRUE)>>

\* impl Value for Vec<T>: self.as_slice().stream(stream)
stream_Vec(self) == <<Instr("stream", 0, <<Value("Slice", self.items)>>, TRUE)>>

\* BTreeMap<K, V> that writes all the keys and then all the values
stream_BTreeMap_keys_first(self) ==
    <<Instr("map_begin", Len(self.items), <<>>, TRUE)>>
    \o [i \in 1 .. Len(self.items) |-> Instr("map_key", 0, <<self.items[i][1]>>, TRUE)]
    \o [i \in 1 .. Len(self.items) |-> Instr("map_value", 0, <<self.items[i][2]>>, TRUE)]
    \o <<Instr("map_end", 0, <<>>, TRUE)>>

\* impl Value for BTreeMap<K, V>
stream_BTreeMap(self) ==
    <<Instr("map_begin", Len(self.items), <<>>, TRUE)>>
    \o [i \in 1 .. 2 * Len(self.items) |->
           IF i % 2 = 1
           THEN Instr("map_key", 0, <<self.items[(i + 1) \div 2][1]>>, TRUE)
           ELSE Instr("map_value", 0, <<self.items[i \div 2][2]>>, TRUE)]
    \o <<Instr("map_end", 0, <<>>, TRUE)>>

\* impl Value for HashMap<K, V, H>
stream_HashMap(self) ==
    <<Instr("map_begin", Len(self.items), <<>>, TRUE)>>
    \o [i \in 1 .. 2 * Len(self.items) |->
           IF i % 2 = 1
           THEN Instr("map_key", 0, <<self.items[(i + 1) \div 2][1]>>, TRUE)
           ELSE Instr("map_value", 0, <<self.items[i \div 2][2]>>, TRUE)]
    \o <<Instr("map_end", 0, <<>>, TRUE)>>

\* Value::stream of `self`: the body of the impl for its type
stream(self) ==
    CASE self.kind = "Unit" -> stream_unit(self)
      [] self.kind \in {"Some", "None"} -> stream_Option(self)
      [] self.kind = "Slice" -> stream_slice(self)
      [] self.kind = "Pair" -> stream_pair(self)
      [] self.kind = "Prim" -> stream_prim(self)
      [] self.kind = "Box" -> stream_Box(self)
      [] self.kind = "Rc" -> stream_Rc(self)
      [] self.kind = "Arc" -> stream_Arc(self)
      [] self.kind = "Vec" -> stream_Vec(self)
      [] self.kind = "BTreeMap" -> stream_BTreeMap(self)
      [] self.kind = "HashMap" -> stream_HashMap(self)

----------------------------------------------------------------------------
(* value::Stream, the driver the bodies call: it asks the validator, hands
   the event to the consumer, and streams a key, value or element it is
   given; any failure is the failure of the call *)

\* a stream() body in progress: the statements left, and the `try` of the
\* statement of the caller that is waiting for it
Frame(todo, try) == [todo |-> todo, try |-> try]

Innermost(w) == w[Len(w)]

Return(w) == SubSeq(w, 1, Len(w) - 1)

\* the innermost frame with its first statement done
Advance(w) ==
    [w EXCEPT ![Len(w)] = Frame(SubSeq(@.todo, 2, Len(@.todo)), @.try)]

RECURSIVE Settle(_)
\* bodies that have no statement left return Ok to their callers
Settle(w) ==
    IF w = <<>> THEN [work |-> w, res |-> "Ok"]
    ELSE IF Innermost(w).todo = <<>> THEN Settle(Return(w))
    ELSE [work |-> w, res |-> "running"]

RECURSIVE Unwind(_, _)
\* a statement of the innermost body got Err: with `try` the body returns it
\* to the statement of its caller, and so on outwards
Unwind(w, try) ==
    IF w = <<>> THEN [work |-> w, res |-> "Err"]
    ELSE IF try THEN Unwind(Return(w), Innermost(w).try)
    ELSE Settle(w)

\* the validator operation behind a stream method
StackOp(call) == IF call \in {"none", "prim"} THEN "primitive" ELSE call

InitValue ==
    /\ InitStack
    /\ mode = "value"
    /\ script = <<>>
    /\ log1 = <<>>
    /\ log2 = <<>>
    /\ val \in Values
    /\ work = <<Frame(stream(val), TRUE)>>
    /\ out = <<>>
    /\ result = "running"

Streaming == mode = "value" /\ work # <<>> /\ UNCHANGED <<replayVars, val>>

\* the next statement calls a stream method: the validator is asked, then the
\* consumer, which may fail; a key, value or element is streamed in turn
StreamEvent ==
    /\ Streaming
    /\ LET i == Innermost(work).todo[1]
       IN  /\ i.call # "stream"
           /\ \E checks, fails \in BOOLEAN :
                 LET r == Do(StackOp(i.call), Self, checks)
                     ok == r.res = "Ok" /\ ~fails
                     next == IF ~ok THEN Unwind(Advance(work), i.try)
                             ELSE IF i.sub = <<>> THEN Settle(Advance(work))
                             ELSE [work |-> Append(Advance(work), Frame(stream(i.sub[1]), i.try)),
                                   res |-> "running"]
                 IN  /\ Call(StackOp(i.call), r)
                     /\ out' = Append(out, [op |-> i.call, arg |-> i.arg, ok |-> ok])
                     /\ work' = next.work
                     /\ result' = next.res

\* the next statement hands the stream to the stream() of another value
StreamInto ==
    /\ Streaming
    /\ LET i == Innermost(work).todo[1]
       IN  /\ i.call = "stream"
           /\ work' = Append(Advance(work), Frame(stream(i.sub[1]), i.try))
    /\ UNCHANGED <<stackVars, callVars, ghostVars, out, result>>

NextValue ==
    \/ StreamEvent
    \/ StreamInto

SpecValue == InitValue /\ [][NextValue]_vars

----------------------------------------------------------------------------
(* The claims *)

\* the root item has been produced: the accepted events are a whole sentence
RootItemDone == gram = <<>>

\* the innermost frame (or the root) is owed an item
ItemPending == Top(gram) = "Item"

Structural == {"map_key", "map_value", "map_end", "seq_elem", "seq_end"}

Items == {"primitive", "map_begin", "seq_begin"}

\* C1: the events a Stack has accepted since new()/clear() are always a prefix
\* of a sentence of the grammar (so they are when every call returned Ok): no
\* ill-nested event is ever accepted.
C1_SoundAcceptance == gramOk

\* C1 witness: an event accepted at the deepest nesting the Stack allows
C1_Witness ==
    /\ lastOp = "map_value"
    /\ lastRes = "Ok"
    /\ depth = MAX_DEPTH
    /\ GramDepth(gram) = Capacity

\* C2: a call that continues a grammar sentence of nesting depth <= 12 returns
\* Ok, and end() after a whole sentence returns Ok.
C2_CompleteAcceptance == lastLegal => lastRes = "Ok"

\* C2 witness: end() called after a whole sentence has been replayed
C2_Witness == lastOp = "end" /\ lastLegal /\ lastRes = "Ok" /\ RootItemDone

\* C3: can_end() is true iff depth = 0 and the root item has been produced;
\* in particular it is false on a fresh or just-cleared Stack.
C3_CanEndIffRootDone == can_end(Self) <=> (depth = 0 /\ RootItemDone)

\* C4: end() returns Ok exactly when can_end() is true and fails with "the end
\* of the stream" otherwise, so it fails while a frame is open and while no
\* root item has been produced; end() and can_end() leave the Stack as it was.
C4_EndIffComplete ==
    [][/\ lastOp' = "end" =>
            /\ (lastRes' = "Ok") <=> can_end(Self)
            /\ lastRes' \in {"Ok", "Err"}
            /\ lastRes' = "Err" => lastErr' = "the end of the stream"
            /\ (depth > 0 \/ ~RootItemDone) => lastRes' = "Err"
       /\ lastOp' \in {"end", "can_end"} => (inner' = inner /\ depth' = depth)]_vars

\* C5: while a frame's slot is owed its item, every structural call on that
\* frame is rejected; once the item is complete, another item is rejected.
C5_ItemCompletion ==
    [][/\ (ItemPending /\ GramDepth(gram) > 0 /\ lastOp' \in Structural)
            => lastRes' = "Err"
       /\ (~ItemPending /\ lastOp' \in Items) => lastRes' = "Err"]_vars

\* C5 witness: seq_end() rejected while the element's item is owed
C5_Witness ==
    /\ lastOp = "seq_end"
    /\ lastRes = "Err"
    /\ ItemPending
    /\ GramDepth(gram) > 0

\* C6: map_value is accepted only when the frame's key is complete and its
\* value not begun, map_key and map_end only when no key is without its
\* complete value; map_begin then map_value fails with "a map value".
C6_KeyValuePairing ==
    [][/\ (lastOp' = "map_value" /\ lastRes' = "Ok") => Top(gram) = "MapValue"
       /\ (lastOp' \in {"map_key", "map_end"} /\ lastRes' = "Ok") => Top(gram) = "MapBody"
       /\ (lastOp = "map_begin" /\ lastRes = "Ok" /\ lastOp' = "map_value")
            => (lastRes' = "Err" /\ lastErr' = "a map value")]_vars

\* C6 witness: map_value() rejected in a map that awaits a key
C6_Witness ==
    /\ lastOp = "map_value"
    /\ lastRes = "Err"
    /\ lastErr = "a map value"
    /\ Top(gram) = "MapBody"

\* C7: the depth counter and the depth of every returned Pos stay in 0..12;
\* the counter neither underflows nor overflows.
C7_DepthInRange ==
    /\ depth \in 0 .. Capacity
    /\ lastRes # "Panic"
    /\ \A i \in 1 .. Len(pos) : pos[i].depth \in 0 .. Capacity

\* C7 witness: a closing call at depth 0, rejected
C7_Witness == lastOp \in Ends /\ lastRes = "Err" /\ depth = 0

\* C8: with fewer than 12 frames open, map_begin/seq_begin in a slot that is
\* owed an item succeeds and opens one frame; with 12 open it fails with the
\* depth error and changes nothing.
C8_CapacityBoundary ==
    [][lastOp' \in Begins =>
          /\ (depth < Capacity /\ ItemPending)
                => (lastRes' = "Ok" /\ depth' = depth + 1)
          /\ depth = Capacity
                => /\ lastRes' = "Err"
                   /\ lastErr' = (IF lastOp' = "map_begin"
                                  THEN "more depth at the start of a map"
                                  ELSE "more depth at the start of a sequence")
                   /\ inner' = inner
                   /\ depth' = depth]_vars

\* C8 witness: seq_begin() rejected for depth with 12 frames open
C8_Witness ==
    /\ lastOp = "seq_begin"
    /\ lastRes = "Err"
    /\ lastErr = "more depth at the start of a sequence"
    /\ depth = Capacity
    /\ ItemPending

\* C9: clear() leaves the Stack as new() makes it, and the calls of a run
\* replayed after clear() return what they returned in the run.
C9_ClearThenReplay ==
    /\ lastOp = "clear" => Self = new
    /\ \A i \in 1 .. Len(log2) : log2[i] = log1[i]

\* C9 witness: a run of accepted calls replayed whole after clear()
C9_Witness ==
    /\ mode = "replay"
    /\ Len(script) >= 3
    /\ Len(log2) = Len(script)
    /\ \A i \in 1 .. Len(log2) : log2[i].res = "Ok"

\* C10: a rejected call, repeated at once, is rejected again with the same
\* expectation.
C10_RejectionIdempotent ==
    [][(lastRes = "Err" /\ lastOp' = lastOp)
          => (lastRes' = "Err" /\ lastErr' = lastErr)]_vars

\* C10 witness: the repeat of a rejected call, rejected
C10_Witness == repeated /\ lastRes = "Err" /\ lastOp = "map_key"

\* C11: an accepted map_begin/seq_begin adds exactly 1 to depth, an accepted
\* map_end/seq_end takes exactly 1 off, every other call leaves it; depth is
\* always the number of frames opened and not closed, and the Pos of an
\* accepted call carries the depth after the call.
C11_DepthAccounting ==
    /\ [](depth = GramDepth(gram))
    /\ [][/\ (lastOp' \in Begins /\ lastRes' = "Ok") => depth' = depth + 1
          /\ (lastOp' \in Ends /\ lastRes' = "Ok") => depth' = depth - 1
          /\ (lastOp' \in Ops \ (Begins \cup Ends)) => depth' = depth
          /\ (lastOp' \in Ops /\ lastRes' # "Ok") => depth' = depth
          /\ \A i \in 1 .. Len(pos') : pos'[i].depth = depth']_vars

\* C11 witness: the twelfth frame closed, the Pos reporting depth 11
C11_Witness ==
    /\ lastOp = "seq_end"
    /\ lastRes = "Ok"
    /\ depth = Capacity - 1
    /\ pos # <<>>
    /\ pos[1].depth = Capacity - 1

\* C12: while a frame is open, the Pos of every accepted call has a depth of
\* at least the depth d in the Pos its begin returned, and the Pos of the
\* map_end/seq_end that closes it has depth d - 1.
C12_DepthWithinFrame ==
    /\ [](\A i \in 1 .. Len(opened) : \A j \in 1 .. Len(pos) :
              pos[j].depth >= opened[i])
    /\ [][(lastOp' \in Ends /\ lastRes' = "Ok")
             => /\ opened # <<>>
                /\ pos'[1].depth = opened[Len(opened)] - 1]_vars

\* C12 witness: inside three frames the innermost was closed, and its Pos
\* has the depth the middle frame's begin returned
C12_Witness ==
    /\ lastOp = "map_end"
    /\ lastRes = "Ok"
    /\ opened = <<1, 2>>
    /\ pos[1].depth = 2

\* C13: the Pos of an accepted map_key has is_key(), of an accepted map_value
\* is_value(), of an accepted seq_elem is_elem(); the Pos of a map_begin or
\* seq_begin at the root has none of the three.
C13_PosNamesSlotEntered ==
    \A i \in 1 .. Len(pos) :
        /\ lastOp = "map_key" => is_key(pos[i])
        /\ lastOp = "map_value" => is_value(pos[i])
        /\ lastOp = "seq_elem" => is_elem(pos[i])
        /\ (lastOp \in Begins /\ depth = 1)
              => (~is_key(pos[i]) /\ ~is_value(pos[i]) /\ ~is_elem(pos[i]))

\* C14: for the Pos of every accepted call, is_value_elem() = (is_value() or
\* is_elem()).
C14_ValueElemIsValueOrElem ==
    \A i \in 1 .. Len(pos) :
        is_value_elem(pos[i]) <=> (is_value(pos[i]) \/ is_elem(pos[i]))

\* C15: once the root item is complete, every event is rejected until clear().
C15_OneRootItem ==
    [][(RootItemDone /\ lastOp' \in Events) => lastRes' = "Err"]_vars

\* C15 witness: a map begun after a root sequence was closed, rejected
C15_Witness ==
    /\ RootItemDone
    /\ lastOp = "map_begin"
    /\ lastRes = "Err"
    /\ lastErr = "the start of a map"

DepthErrors == {"more depth at the start of a map", "more depth at the start of a sequence"}

\* the events of a run, without their outcome
Sent(o) == [i \in 1 .. Len(o) |-> [op |-> o[i].op, arg |-> o[i].arg]]

Ev(op, arg) == [op |-> op, arg |-> arg]

RECURSIVE Expected(_)
RECURSIVE ExpectedElems(_, _)
RECURSIVE ExpectedEntries(_, _)
\* the events the specification gives for a value
Expected(v) ==
    CASE v.kind = "Prim" -> <<Ev("prim", v.items[1])>>
      [] v.kind \in {"None", "Unit"} -> <<Ev("none", 0)>>
      [] v.kind \in Wrappers -> Expected(v.items[1])
      [] v.kind \in {"Slice", "Vec"} ->
            <<Ev("seq_begin", Len(v.items))>> \o ExpectedElems(v.items, 1) \o <<Ev("seq_end", 0)>>
      [] v.kind = "Pair" ->
            <<Ev("seq_begin", 2), Ev("seq_elem", 0)>> \o Expected(v.items[1])
            \o <<Ev("seq_elem", 0)>> \o Expected(v.items[2]) \o <<Ev("seq_end", 0)>>
      [] v.kind \in {"BTreeMap", "HashMap"} ->
            <<Ev("map_begin", Len(v.items))>> \o ExpectedEntries(v.items, 1) \o <<Ev("map_end", 0)>>

ExpectedElems(s, i) ==
    IF i > Len(s) THEN <<>>
    ELSE <<Ev("seq_elem", 0)>> \o Expected(s[i]) \o ExpectedElems(s, i + 1)

ExpectedEntries(e, i) ==
    IF i > Len(e) THEN <<>>
    ELSE <<Ev("map_key", 0)>> \o Expected(e[i][1])
         \o <<Ev("map_value", 0)>> \o Expected(e[i][2]) \o ExpectedEntries(e, i + 1)

Collections == {"Slice", "Vec", "Pair", "BTreeMap", "HashMap"}

\* C16: a slice or Vec of n streams seq_begin(Some(n)), seq_elem and the
\* element for each index in order, seq_end; a pair the same with n = 2; a map
\* of n streams map_begin(Some(n)), map_key and the key then map_value and the
\* value for each entry, map_end; the validator accepts every one of these
\* events and they are a whole sentence of the grammar.
C16_CollectionsStreamTheGrammar ==
    val.kind \in Collections =>
        /\ gramOk
        /\ lastRes # "Err"
        /\ result = "Ok" => (Sent(out) = Expected(val) /\ RootItemDone)

\* C16 witness: a HashMap of two entries streamed, the larger key first
C16_Witness ==
    /\ result = "Ok"
    /\ val.kind = "HashMap"
    /\ Len(val.items) = 2
    /\ val.items[1][1].items[1] > val.items[2][1].items[1]
    /\ Len(out) = 10
    /\ out[10].op = "map_end"

\* C17: a failed call on the stream is the last call the producer makes, and
\* the producer has returned Err: no seq_end or map_end follows it.
C17_FirstErrorEndsStreaming ==
    /\ \A i \in 1 .. Len(out) : ~out[i].ok => (i = Len(out) /\ result = "Err")
    /\ result = "Err" => (work = <<>> /\ out # <<>> /\ ~out[Len(out)].ok)

\* C17 witness: the second element of a slice inside a Box failed
C17_Witness ==
    /\ result = "Err"
    /\ val.kind = "Box"
    /\ val.items[1].kind = "Slice"
    /\ Len(out) = 4
    /\ out[4].op = "seq_elem"

\* C18: Some(v), Box, Rc and Arc of v stream exactly the events of v, a Vec
\* exactly those of its slice; None and () stream one `none` and nothing else.
C18_WrappersAreTransparent ==
    result = "Ok" =>
        /\ val.kind \in Wrappers => Sent(out) = Expected(val.items[1])
        /\ val.kind = "Vec" => Sent(out) = Expected(Value("Slice", val.items))
        /\ val.kind \in {"None", "Unit"} => Sent(out) = <<Ev("none", 0)>>

\* C18 witness: Some of a pair streamed as the pair
C18_Witness ==
    /\ result = "Ok"
    /\ val.kind = "Some"
    /\ val.items[1].kind = "Pair"
    /\ Len(out) = 6

\* C19: with 12 frames open map_begin/seq_begin fails with the depth error
\* whatever the top frame awaits; with fewer open it never fails with the
\* depth error, and fails with the protocol error when no item is owed.
C19_DepthErrorIffFull ==
    [][lastOp' \in Begins =>
          /\ GramDepth(gram) = Capacity
                => (lastRes' = "Err" /\ lastErr' \in DepthErrors)
          /\ GramDepth(gram) < Capacity
                => /\ lastErr' \notin DepthErrors
                   /\ ~ItemPending
                        => /\ lastRes' = "Err"
                           /\ lastErr' = (IF lastOp' = "map_begin"
                                          THEN "the start of a map"
                                          ELSE "the start of a sequence")]_vars

\* C19 witness: map_begin at depth 12 in a frame that owes no item
C19_Witness ==
    /\ lastOp = "map_begin"
    /\ lastRes = "Err"
    /\ lastErr = "more depth at the start of a map"
    /\ GramDepth(gram) = Capacity
    /\ ~ItemPending

\* C20: the packed validator and the reference validator accept and reject
\* the same calls and report the same depth, and every slot of the packed
\* integer is the state of the reference frame at that depth: a parent frame
\* comes back from a closed child as it was, its item marked off.
C20_RefinesFrameArray ==
    /\ [](/\ depth = RefDepth(ref)
          /\ \A i \in 1 .. Len(ref) :
                SlotAt(inner, Len(ref) - i) = RefSlot(ref[i], i = Len(ref)))
    /\ [][lastOp' \in Events
             => (lastRes' = "Ok" <=> RefDo(ref, lastOp').ok)]_vars

\* C20 witness: the twelfth frame, a map key's sequence, closed under a
\* map that now awaits its value
C20_Witness ==
    /\ lastOp = "seq_end"
    /\ lastRes = "Ok"
    /\ depth = Capacity - 1
    /\ RefTop(ref) = RefFrame("MapAwaitingValue", FALSE)

\* C21: a call of an event or of end() that returns Err leaves inner and
\* depth exactly as they were (every operation answers from inner and depth
\* alone, so each call is answered after it as it would have been before it).
C21_RejectionChangesNothing ==
    [][(lastOp' \in Events \cup {"end"} /\ lastRes' = "Err")
          => (inner' = inner /\ depth' = depth)]_vars

\* C21 witness: seq_end rejected inside a map at depth 12, while the map's
\* own next call is still due
C21_Witness ==
    /\ lastOp = "seq_end"
    /\ lastRes = "Err"
    /\ depth = Capacity
    /\ Top(gram) = "MapValue"

\* the codes a slot may hold: of the root, of a frame that is the innermost,
\* of a frame that has a frame open inside it
RootCodes == {IS_EMPTY, NEEDS_ITEM}

TopCodes == {6, 3, 2, 7, 8, 9}

ParentCodes == {c \in TopCodes \cup RootCodes : c % 2 = 0}

\* C22: at depth d the bits from 5*(d+1) up are zero, no slot has the reserved
\* bit, the top slot holds a legal code (0 or NEEDS_ITEM at the root; 6, 3, 2,
\* 7 in a map; 8, 9 in a sequence), no other slot has NEEDS_ITEM, at depth 0
\* the word is 0 or 1; map_end/seq_end never succeed at depth 0 and a begin
\* never shifts a set bit out of the word.
C22_EncodingWellFormed ==
    /\ [](/\ depth \in 0 .. Capacity
          /\ \A b \in BitIx : b > Slot_BITS * (depth + 1) => inner[b] = 0
          /\ \A i \in 0 .. depth :
                /\ U8And(SlotAt(inner, i), RESERVED) = 0
                /\ i > 0 => U8And(SlotAt(inner, i), NEEDS_ITEM) = 0
                /\ i > 0 => SlotAt(inner, i) \in ParentCodes
          /\ SlotAt(inner, 0) \in (IF depth = 0 THEN RootCodes ELSE TopCodes)
          /\ depth = 0 => inner \in {AsRaw(0), AsRaw(1)})
    /\ [][/\ (lastOp' \in Ends /\ lastRes' = "Ok") => depth > 0
          /\ (lastOp' \in Begins /\ lastRes' = "Ok")
                => /\ \A b \in BitIx : b > Stack_BITS - Slot_BITS => inner[b] = 0
                   /\ Shr(inner', Slot_BITS) = BitXor(inner, AsRaw(NEEDS_ITEM))]_vars

\* C22 witness: twelve frames open, the innermost a map whose value is due
C22_Witness ==
    /\ depth = Capacity
    /\ SlotAt(inner, 0) = 7
    /\ SlotAt(inner, Capacity) = 0
    /\ lastOp = "map_value"

\* the slot the item that has just been completed was in
Filled == Top(gram)

\* C23: the Pos of an accepted primitive, map_end or seq_end has is_key() iff
\* the item it completed was a map key, is_value() iff a map value, is_elem()
\* iff a sequence element, none of them for the root item; no Pos has two of
\* the three.
C23_PosNamesSlotFilled ==
    \A i \in 1 .. Len(pos) :
        /\ (gramOk /\ lastOp \in {"primitive", "map_end", "seq_end"})
              => /\ is_key(pos[i]) <=> Filled = "MapValue"
                 /\ is_value(pos[i]) <=> Filled = "MapBody"
                 /\ is_elem(pos[i]) <=> Filled = "SeqBody"
                 /\ Filled = "Done"
                       => (~is_key(pos[i]) /\ ~is_value(pos[i]) /\ ~is_elem(pos[i]))
        /\ ~(is_key(pos[i]) /\ is_value(pos[i]))
        /\ ~(is_key(pos[i]) /\ is_elem(pos[i]))
        /\ ~(is_value(pos[i]) /\ is_elem(pos[i]))

\* C23 witness: a sequence that is a map's key closed at depth 11
C23_Witness ==
    /\ lastOp = "seq_end"
    /\ lastRes = "Ok"
    /\ depth = Capacity - 1
    /\ is_key(pos[1])

\* the closing move for what is owed next
ClosingMove(g) ==
    CASE Top(g) = "Item" -> "primitive"
      [] Top(g) = "MapValue" -> "map_value"
      [] Top(g) = "MapBody" -> "map_end"
      [] Top(g) = "SeqBody" -> "seq_end"

RECURSIVE ClosingSteps(_, _, _)
\* the closing moves it takes from `self` until nothing is owed and can_end()
\* holds; -1 when a move is rejected, can_end() is false at the end, or more
\* than `fuel` moves are needed. (A build with overflow checks: a move that
\* panics is not accepted; without a panic the other build does the same.)
ClosingSteps(self, g, fuel) ==
    IF g = <<>> THEN (IF can_end(self) THEN 0 ELSE -1)
    ELSE IF fuel = 0 THEN -1
    ELSE LET op == ClosingMove(g)
             r == Do(op, self, TRUE)
             n == ClosingSteps(r.self, GramNext(g, op), fuel - 1)
         IN  IF r.res # "Ok" \/ n < 0 THEN -1 ELSE n + 1

\* the closing moves a stream of this depth may need: three per open frame,
\* and one for an item that is still pending
ClosingBound(d) == 3 * d + 1

\* C24: from every state reached through accepted calls, the closing moves
\* (primitive for a pending item, map_value after a key, map_end for a map
\* awaiting a key, seq_end for a sequence awaiting an element) are all
\* accepted and lead to can_end() within a number of moves bounded by depth.
C24_NoDeadEnds ==
    (gramOk /\ Running) => ClosingSteps(Self, gram, ClosingBound(depth)) >= 0

\* C24 witness: the key of a map at depth 12 is pending, and closing takes
\* the four moves of the map and one per sequence around it
C24_Witness ==
    /\ depth = Capacity
    /\ gramOk
    /\ Len(gram) > 1
    /\ Top(gram) = "Item"
    /\ gram[Len(gram) - 1] = "MapValue"
    /\ ClosingSteps(Self, gram, ClosingBound(depth)) = Capacity + 3

----------------------------------------------------------------------------
(* Well-typedness of the state *)

TypeOK ==
    /\ inner \in [BitIx -> {0, 1}]
    /\ depth \in 0 .. U8_MAX
    /\ lastOp \in Ops \cup {"new", "clear"}
    /\ lastRes \in {"Ok", "Err", "Panic", "true", "false", "none"}
    /\ Len(pos) <= 1
    /\ opened \in Seq(0 .. U8_MAX)
    /\ \A i \in 1 .. Len(ref) : ref[i].state \in RefStates /\ ref[i].pending \in BOOLEAN
    /\ Len(log2) <= Len(log1)
    /\ Len(log1) = Len(script)

====
